---- MODULE Spec2Model ----
(***************************************************************************)
(* A model of daily-todo: the day-document parser, serializer and section  *)
(* editor of storage.py, the intent decoding of llm.py and the four        *)
(* commands of cli.py.                                                     *)
(*                                                                         *)
(* A Python str is modelled as the non-empty sequence of its pieces        *)
(* between "\n" characters (what str.split("\n") returns): "" is           *)
(* <<EMPTY>>, "a\n" is <<a, EMPTY>>.  A piece (a line) is a record         *)
(*   k     what the stripped line is: "blank" (nothing), "hdr" (starts     *)
(*         with "## "), "check" (matches _TASK_LINE), "text" (other)       *)
(*   m     the bracket character of a check line                           *)
(*   t     the heading name / the title / the text                         *)
(*   lead, trail   whether whitespace surrounds the stripped line          *)
(***************************************************************************)
EXTENDS Integers, Sequences, FiniteSets, TLC

VARIABLES content, op, result, store, last

vars == <<content, op, result, store, last>>

(***************************************************************************)
(* Bounds of the model.                                                    *)
(***************************************************************************)
MaxLines == 4

MaxDay == 1

MaxEditIdx == 2
\* task lists handed to the serializer have at most MaxTasks tasks
MaxTasks == 3

(***************************************************************************)
(* Lines.                                                                  *)
(***************************************************************************)
MkLine(k, m, t, lead, trail) == [k |-> k, m |-> m, t |-> t, lead |-> lead, trail |-> trail]

EMPTY == MkLine("blank", "", "", FALSE, FALSE)

WS_LINE == MkLine("blank", "", "", TRUE, FALSE)

CHECK_PENDING == " "

CHECK_DONE == "x"

CHECK_ABANDONED == "~"

TASK_SECTION_HEADER == MkLine("hdr", "", "tasks", FALSE, FALSE)

ABANDONED_SECTION_HEADER == MkLine("hdr", "", "abandoned", FALSE, FALSE)

SUMMARY_SECTION_HEADER == MkLine("hdr", "", "summary", FALSE, FALSE)

\* "## Notes": a heading that is none of the three recognised headers
NOTES_HEADER == MkLine("hdr", "", "notes", FALSE, FALSE)

\* "## <task header text>..." : a heading that has TASK_SECTION_HEADER as a
\* proper prefix (a substring) without being that header
TASKLIST_HEADER == MkLine("hdr", "", "tasks+", FALSE, FALSE)

Check(m, t) == MkLine("check", m, t, FALSE, FALSE)

Padded(l) == [l EXCEPT !.lead = TRUE, !.trail = TRUE]

PROSE == MkLine("text", "", "note", FALSE, FALSE)

\* str.strip() of a single line
strip(line) == [line EXCEPT !.lead = FALSE, !.trail = FALSE]

\* str.rstrip() of a single line
rstrip(line) ==
    IF line.k = "blank" THEN EMPTY ELSE [line EXCEPT !.trail = FALSE]

\* str.lstrip() of a single line
lstrip(line) ==
    IF line.k = "blank" THEN EMPTY ELSE [line EXCEPT !.lead = FALSE]

\* stripped.startswith("## ")
startswith_h2(stripped) == stripped.k = "hdr"

\* TASK_SECTION_HEADER in line  (substring test)
contains_task_header(line) == line.k = "hdr" /\ line.t \in {"tasks", "tasks+"}

(***************************************************************************)
(* Texts: str as the sequence of its "\n"-separated pieces.                *)
(***************************************************************************)
EMPTY_STR == <<EMPTY>>

\* str.splitlines(): the pieces, without the empty piece a final "\n" leaves
splitlines(s) == IF s[Len(s)] = EMPTY THEN SubSeq(s, 1, Len(s) - 1) ELSE s

RECURSIVE flatten(_)
flatten(out) == IF out = <<>> THEN <<>> ELSE Head(out) \o flatten(Tail(out))

\* "\n".join(out), out a list of str
join(out) == IF out = <<>> THEN EMPTY_STR ELSE flatten(out)

\* s.strip() = "" for a whole text
is_blank(s) == \A i \in 1..Len(s) : s[i].k = "blank"

RECURSIVE drop_leading_blank(_)
drop_leading_blank(s) ==
    IF s # <<>> /\ s[1].k = "blank" THEN drop_leading_blank(Tail(s)) ELSE s

RECURSIVE drop_trailing_blank(_)
drop_trailing_blank(s) ==
    IF s # <<>> /\ s[Len(s)].k = "blank"
    THEN drop_trailing_blank(SubSeq(s, 1, Len(s) - 1)) ELSE s

\* s.strip() of a whole text
strip_str(s) ==
    LET core == drop_trailing_blank(drop_leading_blank(s)) IN
    IF core = <<>> THEN EMPTY_STR
    ELSE [i \in 1..Len(core) |->
            IF i = 1 /\ i = Len(core) THEN strip(core[i])
            ELSE IF i = 1 THEN lstrip(core[i])
            ELSE IF i = Len(core) THEN rstrip(core[i])
            ELSE core[i]]

(***************************************************************************)
(* Task and the parser (storage.py).                                       *)
(***************************************************************************)
Task(index, title, status, raw_line) ==
    [index |-> index, title |-> title, status |-> status, raw_line |-> raw_line]

NONE == [index |-> 0, title |-> "", status |-> "", raw_line |-> EMPTY]

\* is_pending that also counts done tasks
is_pending_done(t) == t.status # CHECK_ABANDONED

is_pending(t) == t.status = CHECK_PENDING

is_done(t) == t.status = CHECK_DONE

is_abandoned(t) == t.status = CHECK_ABANDONED

\* to_markdown that always writes the pending marker
to_markdown_nomark(t) == Check(CHECK_PENDING, t.title)

\* f"- [{self.status}] {self.title}"
to_markdown(t) == Check(t.status, t.title)

\* the chain without the .lower(): an upper-case X is not done
decode_status_caseful(m) ==
    IF m = "x" THEN CHECK_DONE
    ELSE IF m = "~" THEN CHECK_ABANDONED
    ELSE CHECK_PENDING

\* m.group(1).lower(), then the if/elif/else chain
decode_status(m) ==
    LET lower == IF m = "X" THEN "x" ELSE m IN
    IF lower = "x" THEN CHECK_DONE
    ELSE IF lower = "~" THEN CHECK_ABANDONED
    ELSE CHECK_PENDING

_parse_task_line(line, index) ==
    LET stripped == strip(line) IN
    IF stripped.k # "check" THEN NONE
    ELSE Task(index, stripped.t, decode_status(stripped.m), rstrip(line))

\* the parser without lines 113-114
coerce_abandoned_off(t, in_abandoned) == t

\* lines 113-114: a task matched inside the Abandoned section is abandoned
coerce_abandoned(t, in_abandoned) ==
    IF in_abandoned THEN Task(t.index, t.title, CHECK_ABANDONED, t.raw_line) ELSE t

\* the loop body with index += 1 before the match is tested
parse_step_eager_index(st, line) ==
    LET stripped == strip(line) IN
    IF stripped = TASK_SECTION_HEADER
    THEN [st EXCEPT !.in_tasks = TRUE, !.in_abandoned = FALSE]
    ELSE IF stripped = ABANDONED_SECTION_HEADER
    THEN [st EXCEPT !.in_abandoned = TRUE, !.in_tasks = FALSE]
    ELSE IF startswith_h2(stripped)
    THEN [st EXCEPT !.in_tasks = FALSE, !.in_abandoned = FALSE]
    ELSE IF st.in_tasks \/ st.in_abandoned
    THEN LET t == _parse_task_line(line, st.index + 1) IN
         IF t # NONE
         THEN [st EXCEPT !.index = st.index + 1,
                         !.tasks = Append(st.tasks, coerce_abandoned(t, st.in_abandoned))]
         ELSE [st EXCEPT !.index = st.index + 1]
    ELSE st

\* the loop body without lines 104-107: another heading clears no flag
parse_step_sticky(st, line) ==
    LET stripped == strip(line) IN
    IF stripped = TASK_SECTION_HEADER
    THEN [st EXCEPT !.in_tasks = TRUE, !.in_abandoned = FALSE]
    ELSE IF stripped = ABANDONED_SECTION_HEADER
    THEN [st EXCEPT !.in_abandoned = TRUE, !.in_tasks = FALSE]
    ELSE IF st.in_tasks \/ st.in_abandoned
    THEN LET t == _parse_task_line(line, st.index + 1) IN
         IF t # NONE
         THEN [st EXCEPT !.index = st.index + 1,
                         !.tasks = Append(st.tasks, coerce_abandoned(t, st.in_abandoned))]
         ELSE st
    ELSE st

\* the body of the for loop of parse_tasks_from_markdown
parse_step(st, line) ==
    LET stripped == strip(line) IN
    IF stripped = TASK_SECTION_HEADER
    THEN [st EXCEPT !.in_tasks = TRUE, !.in_abandoned = FALSE]
    ELSE IF stripped = ABANDONED_SECTION_HEADER
    THEN [st EXCEPT !.in_abandoned = TRUE, !.in_tasks = FALSE]
    ELSE IF startswith_h2(stripped)
    THEN [st EXCEPT !.in_tasks = FALSE, !.in_abandoned = FALSE]
    ELSE IF st.in_tasks \/ st.in_abandoned
    THEN LET t == _parse_task_line(line, st.index + 1) IN
         IF t # NONE
         THEN [st EXCEPT !.index = st.index + 1,
                         !.tasks = Append(st.tasks, coerce_abandoned(t, st.in_abandoned))]
         ELSE st
    ELSE st

RECURSIVE parse_loop(_, _, _)
parse_loop(lines, i, st) ==
    IF i > Len(lines) THEN st ELSE parse_loop(lines, i + 1, parse_step(st, lines[i]))

parse_tasks_from_markdown(s) ==
    parse_loop(splitlines(s), 1,
               [in_tasks |-> FALSE, in_abandoned |-> FALSE, index |-> 0, tasks |-> <<>>]).tasks

(***************************************************************************)
(* The serializer and the section editor (storage.py).                     *)
(***************************************************************************)
\* the serializer with the Abandoned header written unconditionally
serialize_tasks_with_empty_abandoned(tasks) ==
    LET main == SelectSeq(tasks, LAMBDA t : ~is_abandoned(t))
        abandoned == SelectSeq(tasks, LAMBDA t : is_abandoned(t))
        md(ts) == [i \in 1..Len(ts) |-> to_markdown(ts[i])]
    IN  <<TASK_SECTION_HEADER, EMPTY>> \o md(main)
        \o <<EMPTY, ABANDONED_SECTION_HEADER, EMPTY>> \o md(abandoned)

serialize_tasks_to_section(tasks) ==
    LET main == SelectSeq(tasks, LAMBDA t : ~is_abandoned(t))
        abandoned == SelectSeq(tasks, LAMBDA t : is_abandoned(t))
        md(ts) == [i \in 1..Len(ts) |-> to_markdown(ts[i])]
    IN  <<TASK_SECTION_HEADER, EMPTY>> \o md(main)
        \o (IF abandoned # <<>>
            THEN <<EMPTY, ABANDONED_SECTION_HEADER, EMPTY>> \o md(abandoned)
            ELSE <<>>)

\* while i < len(lines) and not lines[i].strip().startswith("## "): i += 1
\* (i is 1-based here)
\* the loop that skips nothing: the old section body is kept
skip_section_body_none(lines, i) == i

RECURSIVE skip_section_body(_, _)
skip_section_body(lines, i) ==
    IF i <= Len(lines) /\ ~startswith_h2(strip(lines[i]))
    THEN skip_section_body(lines, i + 1)
    ELSE i

\* the while loop of replace_tasks_section; out is a list of str
RECURSIVE replace_tasks_loop(_, _, _, _, _)
replace_tasks_loop(lines, i, out, replaced, new_tasks_section) ==
    IF i > Len(lines) THEN [out |-> out, replaced |-> replaced]
    ELSE LET stripped == strip(lines[i]) IN
         IF stripped = TASK_SECTION_HEADER
         THEN replace_tasks_loop(lines, skip_section_body(lines, i + 1),
                                 Append(out, new_tasks_section), TRUE, new_tasks_section)
         ELSE IF stripped = ABANDONED_SECTION_HEADER
         THEN replace_tasks_loop(lines, skip_section_body(lines, i + 1),
                                 out, replaced, new_tasks_section)
         ELSE replace_tasks_loop(lines, i + 1, Append(out, <<lines[i]>>),
                                 replaced, new_tasks_section)

\* replace_tasks_section that never sets replaced
replace_tasks_always_append(s, new_tasks_section) ==
    LET r == replace_tasks_loop(splitlines(s), 1, <<>>, FALSE, new_tasks_section)
        sep == IF r.out # <<>> /\ ~is_blank(r.out[Len(r.out)]) THEN <<EMPTY_STR>> ELSE <<>>
    IN  join(r.out \o sep \o <<new_tasks_section>>)

replace_tasks_section(s, new_tasks_section) ==
    LET r == replace_tasks_loop(splitlines(s), 1, <<>>, FALSE, new_tasks_section)
        sep == IF r.out # <<>> /\ ~is_blank(r.out[Len(r.out)]) THEN <<EMPTY_STR>> ELSE <<>>
    IN  IF ~r.replaced
        THEN join(r.out \o sep \o <<new_tasks_section>>)
        ELSE join(r.out)

\* the for loop of get_task_section_only
RECURSIVE task_section_loop(_, _, _, _)
task_section_loop(lines, i, in_section, res) ==
    IF i > Len(lines) THEN res
    ELSE LET s == strip(lines[i]) IN
         IF s = TASK_SECTION_HEADER \/ s = ABANDONED_SECTION_HEADER
         THEN task_section_loop(lines, i + 1, TRUE, Append(res, lines[i]))
         ELSE IF in_section
         THEN IF startswith_h2(s)
              THEN task_section_loop(lines, i + 1, FALSE, res)
              ELSE task_section_loop(lines, i + 1, TRUE, Append(res, lines[i]))
         ELSE task_section_loop(lines, i + 1, FALSE, res)

\* the extraction without its header lines
get_task_section_only_bare(s) ==
    LET res == SelectSeq(task_section_loop(splitlines(s), 1, FALSE, <<>>),
                         LAMBDA l : ~startswith_h2(strip(l)))
    IN  IF res # <<>> THEN res ELSE EMPTY_STR

get_task_section_only(s) ==
    LET res == task_section_loop(splitlines(s), 1, FALSE, <<>>) IN
    IF res # <<>> THEN res ELSE EMPTY_STR

\* the while loop of replace_summary_section
RECURSIVE replace_summary_loop(_, _, _, _, _)
replace_summary_loop(lines, i, out, replaced, summary_text) ==
    IF i > Len(lines) THEN [out |-> out, replaced |-> replaced]
    ELSE IF strip(lines[i]) = SUMMARY_SECTION_HEADER
    THEN replace_summary_loop(lines, skip_section_body(lines, i + 1),
                              out \o <<<<SUMMARY_SECTION_HEADER>>, EMPTY_STR,
                                       strip_str(summary_text)>>,
                              TRUE, summary_text)
    ELSE replace_summary_loop(lines, i + 1, Append(out, <<lines[i]>>),
                              replaced, summary_text)

replace_summary_section(s, summary_text) ==
    LET r == replace_summary_loop(splitlines(s), 1, <<>>, FALSE, summary_text)
        sep == IF r.out # <<>> /\ ~is_blank(r.out[Len(r.out)]) THEN <<EMPTY_STR>> ELSE <<>>
    IN  IF ~r.replaced
        THEN join(r.out \o sep \o <<<<SUMMARY_SECTION_HEADER>>, EMPTY_STR,
                                     strip_str(summary_text)>>)
        ELSE join(r.out)

(***************************************************************************)
(* The day-file store (storage.py) and the external collaborator (llm.py). *)
(***************************************************************************)
Days == 0..MaxDay

\* no file for that date
NO_FILE == <<>>

\* the seven days of a weekly summary: range(6, -1, -1)
WeekSpan == 6

read_daily_md(st, d) ==
    IF d \in DOMAIN st /\ st[d] # NO_FILE THEN st[d] ELSE EMPTY_STR

write_daily_md(st, d, s) == [st EXCEPT ![d] = s]

\* f"# {d.isoformat()}"
DateTitle(d) == MkLine("text", "", ToString(d), FALSE, FALSE)

Ev(e, d) == [ev |-> e, day |-> d]

\* _client without the credential test
_client_unchecked(cred) == "ok"

\* raises RuntimeError when OPENAI_API_KEY is not set
_client(cred) == IF cred THEN "ok" ELSE "RuntimeError"

\* (msg.content or "").strip()
call_system_user(reply) == strip_str(reply)

\* the dict parse_update_intent returns on JSONDecodeError
EMPTY_EDITS ==
    [is_dict |-> TRUE, completed_indices |-> {}, abandoned_indices |-> {},
     text_edits |-> <<>>, new_tasks |-> <<>>]

\* a JSON value that is no object (null, a list, a number, a string)
NOT_A_DICT == [EMPTY_EDITS EXCEPT !.is_dict = FALSE]

\* the code-fence stripping of parse_update_intent: a reply is
\*   fence  "none"   : the body alone
\*          "block"  : "```json\n" body "\n```"
\*          "inline" : "```" body "```" on one line
\*   body   "garbage" (no JSON), "scalar" (JSON, no object), "object"
\* and what is left for json.loads is the body, or "" for an inline fence
strip_code_fence(raw) ==
    IF raw.fence = "inline" THEN [raw EXCEPT !.body = "garbage"] ELSE raw

\* json.loads(raw), with the except branch
parse_update_intent(raw) ==
    LET r == strip_code_fence(raw) IN
    IF r.body = "garbage" THEN EMPTY_EDITS
    ELSE IF r.body = "scalar" THEN NOT_A_DICT
    ELSE [is_dict |-> TRUE,
          completed_indices |-> r.obj.completed_indices,
          abandoned_indices |-> r.obj.abandoned_indices,
          text_edits |-> r.obj.text_edits,
          new_tasks |-> r.obj.new_tasks]

(***************************************************************************)
(* The commands (cli.py).  Each returns the outcome of one invocation:     *)
(* what it leaves in the store, and a record of the invocation             *)
(*   log     the store accesses, the external call and the error raised,   *)
(*           in the order the code performs them                           *)
(*   exit    "ok", the exception that ended it, or "Exit1"                 *)
(*   before  the text read for the target date                             *)
(*   tasks   the task list the command ends with                           *)
(*   written the text written, NO_FILE when nothing was                    *)
(***************************************************************************)
NO_REPLY == [fence |-> "none", body |-> "garbage"]

Outcome(cmd, d, cred) ==
    [cmd |-> cmd, date |-> d, cred |-> cred, log |-> <<>>, exit |-> "ok",
     before |-> EMPTY_STR, tasks |-> <<>>, reply |-> NO_REPLY,
     edits |-> EMPTY_EDITS, answer |-> EMPTY_STR, written |-> NO_FILE]

Idle == Outcome("none", 0, TRUE)

titles(ts) == [i \in 1..Len(ts) |-> ts[i].title]

cmd_generate(st, d, cred, reply) ==
    LET yesterday == d - 1
        yesterday_md == read_daily_md(st, yesterday)
        yesterday_tasks == parse_tasks_from_markdown(yesterday_md)
        yesterday_pending == titles(SelectSeq(yesterday_tasks, is_pending))
        o == [Outcome("generate", d, cred) EXCEPT !.tasks = yesterday_tasks]
        existing == read_daily_md(st, d)
    IN  IF yesterday_pending = <<>>
        THEN LET empty_section == <<TASK_SECTION_HEADER, EMPTY, EMPTY>>
                 full == IF is_blank(existing)
                         THEN <<DateTitle(d), EMPTY>> \o empty_section
                         ELSE replace_tasks_section(existing, empty_section)
             IN  [store |-> write_daily_md(st, d, full),
                  last |-> [o EXCEPT !.log = <<Ev("read", yesterday), Ev("read", d),
                                              Ev("write", d)>>,
                                     !.before = existing,
                                     !.written = full]]
        ELSE IF _client(cred) # "ok"
        THEN [store |-> st,
              last |-> [o EXCEPT !.log = <<Ev("read", yesterday), Ev("RuntimeError", d)>>,
                                 !.exit = "RuntimeError"]]
        ELSE LET answer == call_system_user(reply)
                 tasks_md == IF ~\E i \in 1..Len(answer) : contains_task_header(answer[i])
                             THEN <<TASK_SECTION_HEADER, EMPTY>> \o answer
                             ELSE answer
                 full == IF is_blank(existing)
                         THEN <<DateTitle(d), EMPTY>> \o tasks_md \o <<EMPTY>>
                         ELSE replace_tasks_section(existing, tasks_md)
             IN  [store |-> write_daily_md(st, d, full),
                  last |-> [o EXCEPT !.log = <<Ev("read", yesterday), Ev("llm", d),
                                              Ev("read", d), Ev("write", d)>>,
                                     !.before = existing,
                                     !.answer = answer,
                                     !.written = full]]

\* cmd_list that writes the re-serialized task list back
cmd_list_rewriting(st, d, cred) ==
    LET c == read_daily_md(st, d)
        tasks == parse_tasks_from_markdown(c)
        full == replace_tasks_section(c, serialize_tasks_to_section(tasks))
    IN  [store |-> write_daily_md(st, d, full),
         last |-> [Outcome("list", d, cred) EXCEPT
                     !.log = <<Ev("read", d)>>, !.before = c, !.tasks = tasks]]

cmd_list(st, d, cred) ==
    LET c == read_daily_md(st, d)
        tasks == parse_tasks_from_markdown(c)
    IN  [store |-> st,
         last |-> [Outcome("list", d, cred) EXCEPT
                     !.log = <<Ev("read", d)>>, !.before = c, !.tasks = tasks]]

\* for t in tasks: if t.index in completed: t.status = CHECK_DONE
apply_completed(tasks, completed) ==
    [i \in 1..Len(tasks) |->
        IF tasks[i].index \in completed
        THEN [tasks[i] EXCEPT !.status = CHECK_DONE] ELSE tasks[i]]

apply_abandoned(tasks, abandoned) ==
    [i \in 1..Len(tasks) |->
        IF tasks[i].index \in abandoned
        THEN [tasks[i] EXCEPT !.status = CHECK_ABANDONED] ELSE tasks[i]]

\* the dict comprehension: a later entry for an index replaces an earlier
apply_text_edits(tasks, text_edits) ==
    LET hits(k) == { j \in 1..Len(text_edits) : text_edits[j].index = k }
        lastof(k) == CHOOSE j \in hits(k) : \A h \in hits(k) : h <= j
    IN  [i \in 1..Len(tasks) |->
            IF hits(tasks[i].index) # {}
            THEN [tasks[i] EXCEPT !.title = text_edits[lastof(tasks[i].index)].new_title]
            ELSE tasks[i]]

append_new_tasks(tasks, new_titles) ==
    LET idx == { tasks[i].index : i \in 1..Len(tasks) }
        max_idx == IF tasks # <<>> THEN CHOOSE m \in idx : \A k \in idx : k <= m ELSE 0
    IN  tasks \o [i \in 1..Len(new_titles) |->
                    Task(max_idx + 1 + (i - 1), new_titles[i], CHECK_PENDING, EMPTY)]

\* the edits with abandoned applied before completed
apply_edits_abandon_first(tasks, edits) ==
    append_new_tasks(
        apply_text_edits(
            apply_completed(apply_abandoned(tasks, edits.abandoned_indices),
                            edits.completed_indices),
            edits.text_edits),
        edits.new_tasks)

\* cli.py 115-142: completed, abandoned, text edits, new tasks
apply_edits(tasks, edits) ==
    append_new_tasks(
        apply_text_edits(
            apply_abandoned(apply_completed(tasks, edits.completed_indices),
                            edits.abandoned_indices),
            edits.text_edits),
        edits.new_tasks)

cmd_update(st, d, cred, reply) ==
    LET content0 == read_daily_md(st, d)
        tasks == parse_tasks_from_markdown(content0)
        text == IF is_blank(content0)
                THEN <<DateTitle(d), EMPTY, TASK_SECTION_HEADER, EMPTY, EMPTY>>
                ELSE content0
        section_only == get_task_section_only(text)
        o == [Outcome("update", d, cred) EXCEPT !.before = content0, !.tasks = tasks]
    IN  IF _client(cred) # "ok"
        THEN [store |-> st,
              last |-> [o EXCEPT !.log = <<Ev("read", d), Ev("RuntimeError", d)>>,
                                 !.exit = "RuntimeError"]]
        ELSE LET edits == parse_update_intent(reply) IN
             IF ~edits.is_dict
             THEN \* edits.get raises AttributeError
                  [store |-> st,
                   last |-> [o EXCEPT !.log = <<Ev("read", d), Ev("llm", d),
                                               Ev("AttributeError", d)>>,
                                      !.exit = "AttributeError",
                                      !.reply = [fence |-> reply.fence, body |-> reply.body],
                                      !.edits = edits]]
             ELSE LET edited == apply_edits(tasks, edits)
                      new_section == serialize_tasks_to_section(edited)
                      new_content == replace_tasks_section(text, new_section)
                  IN  [store |-> write_daily_md(st, d, new_content),
                       last |-> [o EXCEPT !.log = <<Ev("read", d), Ev("llm", d),
                                                   Ev("write", d)>>,
                                          !.tasks = edited,
                                          !.reply = [fence |-> reply.fence,
                                                     body |-> reply.body],
                                          !.edits = edits,
                                          !.written = new_content]]

cmd_summary(st, d, cred, kind, reply) ==
    IF kind = "daily"
    THEN LET c == read_daily_md(st, d)
             o == [Outcome("summary_daily", d, cred) EXCEPT !.before = c]
         IN  IF _client(cred) # "ok"
             THEN [store |-> st,
                   last |-> [o EXCEPT !.log = <<Ev("read", d), Ev("RuntimeError", d)>>,
                                      !.exit = "RuntimeError"]]
             ELSE LET summary == call_system_user(reply)
                      new_content ==
                          IF ~is_blank(c)
                          THEN replace_summary_section(c, summary)
                          ELSE <<DateTitle(d), EMPTY, TASK_SECTION_HEADER, EMPTY, EMPTY,
                                 SUMMARY_SECTION_HEADER, EMPTY>> \o summary
                  IN  [store |-> write_daily_md(st, d, new_content),
                       last |-> [o EXCEPT !.log = <<Ev("read", d), Ev("llm", d),
                                                   Ev("write", d)>>,
                                          !.answer = summary,
                                          !.written = new_content]]
    ELSE IF kind = "weekly"
    THEN LET reads == [i \in 1..(WeekSpan + 1) |-> Ev("read", d - (WeekSpan + 1 - i))]
             o == Outcome("summary_weekly", d, cred)
         IN  IF _client(cred) # "ok"
             THEN [store |-> st,
                   last |-> [o EXCEPT !.log = Append(reads, Ev("RuntimeError", d)),
                                      !.exit = "RuntimeError"]]
             ELSE [store |-> st,
                   last |-> [o EXCEPT !.log = Append(reads, Ev("llm", d))]]
    ELSE [store |-> st,
          last |-> [Outcome("summary_bad", d, cred) EXCEPT !.exit = "Exit1"]]

(***************************************************************************)
(* The specification of one invocation of the program: the store as the    *)
(* process finds it, the environment (credential), the command line and    *)
(* the collaborator's reply.                                               *)
(***************************************************************************)
\* the day files a process may find
SeedDocs ==
    { NO_FILE,
      <<WS_LINE>>,
      <<DateTitle(0), EMPTY, TASK_SECTION_HEADER, EMPTY,
        Check(" ", "a"), Check("x", "b"), EMPTY>>,
      <<TASK_SECTION_HEADER, Check("~", "c"), Padded(Check(" ", "a"))>>,
      <<TASK_SECTION_HEADER, EMPTY, Check(" ", "a"), EMPTY,
        ABANDONED_SECTION_HEADER, EMPTY, Check(" ", "c"), EMPTY,
        NOTES_HEADER, PROSE, SUMMARY_SECTION_HEADER, EMPTY, PROSE>>,
      <<Padded(ABANDONED_SECTION_HEADER), Check(" ", "c"),
        TASK_SECTION_HEADER, Check("X", "b"), TASK_SECTION_HEADER, Check("x", "a")>>,
      <<NOTES_HEADER, Check(" ", "a"), PROSE, EMPTY>> }

\* replies of the generator
GenReplies ==
    { <<TASK_SECTION_HEADER, EMPTY, Check(" ", "a"), EMPTY>>,
      <<Check(" ", "a"), Check(" ", "c")>>,
      <<TASKLIST_HEADER, Check(" ", "a")>>,
      <<EMPTY>> }

\* replies of the summarizer
SummaryReplies ==
    { <<Padded(PROSE), EMPTY>>,
      <<PROSE, TASK_SECTION_HEADER, Check(" ", "n")>> }

\* text_edits and new_tasks of a reply
EditExtras ==
    { [text_edits |-> <<>>, new_tasks |-> <<>>],
      [text_edits |-> <<[index |-> 1, new_title |-> "e"]>>, new_tasks |-> <<>>],
      [text_edits |-> <<[index |-> 2, new_title |-> "e"], [index |-> 2, new_title |-> "f"]>>,
       new_tasks |-> <<"n", "m">>] }

EditObject(c, a, x) ==
    [is_dict |-> TRUE, completed_indices |-> c, abandoned_indices |-> a,
     text_edits |-> x.text_edits, new_tasks |-> x.new_tasks]

\* replies of the intent parser: every edit object unfenced, and each kind
\* of body under each kind of fence
IntentReplies ==
    { [fence |-> "none", body |-> "object", obj |-> EditObject(c, a, x)] :
        c \in SUBSET (1..MaxEditIdx), a \in SUBSET (1..MaxEditIdx), x \in EditExtras }
    \cup
    { [fence |-> f, body |-> b, obj |-> EditObject({1}, {}, CHOOSE x \in EditExtras : x.new_tasks # <<>>)] :
        f \in {"none", "block", "inline"}, b \in {"garbage", "scalar", "object"} }

\* what a command that never reaches the collaborator is given
NoReply(replies) == { CHOOSE r \in replies : TRUE }

Init ==
    /\ store \in [Days -> SeedDocs]
    /\ last = Idle
    /\ content = EMPTY_STR
    /\ op = "init"
    /\ result = [arg |-> EMPTY_STR, tasks |-> <<>>, text |-> EMPTY_STR, tasks2 |-> <<>>]

Run(o) ==
    /\ last.cmd = "none"
    /\ store' = o.store
    /\ last' = o.last
    /\ UNCHANGED <<content, op, result>>

Generate == \E d \in Days, cred \in BOOLEAN :
                \E reply \in IF cred THEN GenReplies ELSE NoReply(GenReplies) :
                    Run(cmd_generate(store, d, cred, reply))

List == \E d \in Days, cred \in BOOLEAN : Run(cmd_list(store, d, cred))

Update == \E d \in Days, cred \in BOOLEAN :
              \E reply \in IF cred THEN IntentReplies ELSE NoReply(IntentReplies) :
                  Run(cmd_update(store, d, cred, reply))

Summary == \E d \in Days, cred \in BOOLEAN, kind \in {"daily", "weekly", "monthly"} :
               \E reply \in IF cred /\ kind = "daily" THEN SummaryReplies
                                                     ELSE NoReply(SummaryReplies) :
                   Run(cmd_summary(store, d, cred, kind, reply))

Next ==
    \/ Generate
    \/ List
    \/ Update
    \/ Summary

Spec == Init /\ [][Next]_vars

(***************************************************************************)
(* The specification of the pure functions: a document drawn from every    *)
(* text of at most MaxLines pieces over LineAlphabet, and one function     *)
(* applied to it.                                                          *)
(***************************************************************************)
LineAlphabet ==
    { EMPTY, TASK_SECTION_HEADER, Padded(ABANDONED_SECTION_HEADER),
      SUMMARY_SECTION_HEADER, NOTES_HEADER,
      Check(" ", "a"), Check("x", "b"), Padded(Check("X", "b")), Check("~", "c"),
      PROSE }

Texts == UNION { [1..n -> LineAlphabet] : n \in 1..MaxLines }

\* new_tasks_section arguments: the empty section of cmd_generate, two
\* outputs of the serializer, and a text with the Task header twice
SectionArgs ==
    { <<TASK_SECTION_HEADER, EMPTY, EMPTY>>,
      <<TASK_SECTION_HEADER, EMPTY, Check(" ", "a")>>,
      <<TASK_SECTION_HEADER, EMPTY, Check("x", "b"), EMPTY,
        ABANDONED_SECTION_HEADER, EMPTY, Check("~", "c")>>,
      <<TASK_SECTION_HEADER, Check(" ", "a"), TASK_SECTION_HEADER>> }

\* summary_text arguments
SummaryArgs ==
    { <<PROSE>>, <<WS_LINE, Padded(PROSE), EMPTY>> }

NoResult == [arg |-> EMPTY_STR, tasks |-> <<>>, text |-> EMPTY_STR, tasks2 |-> <<>>]

InitPure ==
    /\ content \in Texts
    /\ op = "init"
    /\ result = NoResult
    /\ store = [d \in Days |-> NO_FILE]
    /\ last = Idle

ParseDoc ==
    /\ op = "init"
    /\ op' = "parse"
    /\ result' = [NoResult EXCEPT !.tasks = parse_tasks_from_markdown(content)]
    /\ UNCHANGED <<content, store, last>>

RoundTrip ==
    /\ op = "init"
    /\ op' = "roundtrip"
    /\ LET tasks == parse_tasks_from_markdown(content)
           text == serialize_tasks_to_section(tasks)
       IN  result' = [arg |-> EMPTY_STR, tasks |-> tasks, text |-> text,
                      tasks2 |-> parse_tasks_from_markdown(text)]
    /\ UNCHANGED <<content, store, last>>

ReplaceTasks ==
    /\ op = "init"
    /\ op' = "replace_tasks"
    /\ \E S \in SectionArgs :
         result' = [NoResult EXCEPT !.arg = S, !.text = replace_tasks_section(content, S)]
    /\ UNCHANGED <<content, store, last>>

ReplaceTasksTwice ==
    /\ op = "init"
    /\ op' = "replace_tasks_twice"
    /\ \E S \in SectionArgs :
         result' = [NoResult EXCEPT
                      !.arg = S,
                      !.text = replace_tasks_section(replace_tasks_section(content, S), S)]
    /\ UNCHANGED <<content, store, last>>

ReplaceSummary ==
    /\ op = "init"
    /\ op' = "replace_summary"
    /\ \E s \in SummaryArgs :
         result' = [NoResult EXCEPT !.arg = s, !.text = replace_summary_section(content, s)]
    /\ UNCHANGED <<content, store, last>>

\* task lists handed to the serializer
TaskListArgs ==
    { <<>>,
      <<Task(1, "n", CHECK_PENDING, EMPTY)>>,
      <<Task(1, "b", CHECK_DONE, EMPTY), Task(2, "c", CHECK_ABANDONED, EMPTY),
        Task(3, "n", CHECK_PENDING, EMPTY)>> }

\* cli.py 143-144: serialize a task list and merge it into the document
WriteTasks ==
    /\ op = "init"
    /\ op' = "write_tasks"
    /\ \E T \in TaskListArgs :
         LET new_section == serialize_tasks_to_section(T)
             text == replace_tasks_section(content, new_section)
         IN  result' = [arg |-> new_section, tasks |-> T, text |-> text,
                        tasks2 |-> parse_tasks_from_markdown(text)]
    /\ UNCHANGED <<content, store, last>>

\* cli.py 108 and 113: the parsed task list and the section text sent to
\* the intent parser
ExtractSection ==
    /\ op = "init"
    /\ op' = "extract"
    /\ LET section_only == get_task_section_only(content)
       IN  result' = [arg |-> EMPTY_STR,
                      tasks |-> parse_tasks_from_markdown(content),
                      text |-> section_only,
                      tasks2 |-> parse_tasks_from_markdown(section_only)]
    /\ UNCHANGED <<content, store, last>>

NextPure ==
    \/ ParseDoc
    \/ RoundTrip
    \/ ReplaceTasks
    \/ ReplaceTasksTwice
    \/ ReplaceSummary
    \/ WriteTasks
    \/ ExtractSection

SpecPure == InitPure /\ [][NextPure]_vars

(***************************************************************************)
(* The specification of the serializer: a task list drawn from every list  *)
(* of at most MaxTasks tasks, serialized.                                  *)
(***************************************************************************)
TaskTitles == {"a", "b"}

TaskLists ==
    UNION { { [i \in 1..n |-> Task(i, f[i][1], f[i][2], EMPTY)] :
                f \in [1..n -> TaskTitles \X {CHECK_PENDING, CHECK_DONE, CHECK_ABANDONED}] } :
            n \in 0..MaxTasks }

InitSerialize ==
    /\ content = EMPTY_STR
    /\ op = "init"
    /\ \E T \in TaskLists : result = [NoResult EXCEPT !.tasks = T]
    /\ store = [d \in Days |-> NO_FILE]
    /\ last = Idle

Serialize ==
    /\ op = "init"
    /\ op' = "serialize"
    /\ result' = [result EXCEPT !.text = serialize_tasks_to_section(result.tasks)]
    /\ UNCHANGED <<content, store, last>>

NextSerialize == Serialize

SpecSerialize == InitSerialize /\ [][NextSerialize]_vars

(***************************************************************************)
(* Vocabulary of the properties.                                           *)
(***************************************************************************)
\* a task list as the sequence of its (index, title, status)
Proj(ts) == [i \in 1..Len(ts) |-> <<ts[i].index, ts[i].title, ts[i].status>>]

\* the position of the nearest heading line above line i (0: none)
HeadingAbove(lines, i) ==
    LET hs == { j \in 1..(i - 1) : startswith_h2(strip(lines[j])) } IN
    IF hs = {} THEN 0 ELSE CHOOSE j \in hs : \A h \in hs : h <= j

IsHeading(line) == startswith_h2(strip(line))

UnderHeader(lines, i, hdr) ==
    /\ ~IsHeading(lines[i])
    /\ HeadingAbove(lines, i) # 0
    /\ strip(lines[HeadingAbove(lines, i)]) = hdr

\* the checklist lines the parser is to return: those under a Task or an
\* Abandoned header
Matched(lines) ==
    { i \in 1..Len(lines) :
        /\ strip(lines[i]).k = "check"
        /\ \/ UnderHeader(lines, i, TASK_SECTION_HEADER)
           \/ UnderHeader(lines, i, ABANDONED_SECTION_HEADER) }

\* the position of the k-th matched line
NthMatched(lines, k) ==
    CHOOSE i \in Matched(lines) : Cardinality({ j \in Matched(lines) : j <= i }) = k

TaskHeaderCount(s) ==
    Cardinality({ i \in 1..Len(splitlines(s)) : strip(splitlines(s)[i]) = TASK_SECTION_HEADER })

\* sub occurs in s as a run of consecutive lines
OccursIn(sub, s) ==
    \E k \in 0..(Len(s) - Len(sub)) : \A j \in 1..Len(sub) : s[k + j] = sub[j]

\* an opaque section of lines: a heading that is none of the three
\* recognised headers, at i, with its body up to the next heading
IsOpaqueHeading(line) ==
    /\ IsHeading(line)
    /\ strip(line) \notin {TASK_SECTION_HEADER, ABANDONED_SECTION_HEADER,
                           SUMMARY_SECTION_HEADER}

OpaqueSection(lines, i) == SubSeq(lines, i, skip_section_body(lines, i + 1) - 1)

\* no abandoned task stands before a task that is not abandoned
AbandonedLast(ts) ==
    \A i, j \in 1..Len(ts) : (i < j /\ is_abandoned(ts[i])) => is_abandoned(ts[j])

\* ts with its abandoned tasks moved behind the others, renumbered
Partitioned(ts) ==
    LET moved == SelectSeq(ts, LAMBDA t : ~is_abandoned(t))
                 \o SelectSeq(ts, LAMBDA t : is_abandoned(t))
    IN  [i \in 1..Len(moved) |-> <<i, moved[i].title, moved[i].status>>]

(***************************************************************************)
(* Vocabulary of the properties of the commands.                           *)
(***************************************************************************)
EventsOf(log, kinds) == { i \in 1..Len(log) : log[i].ev \in kinds }

\* the reply is no JSON object: no JSON at all, or a JSON value of another
\* type
NotStructured(reply) == reply.body \in {"garbage", "scalar"}

\* the command reached the external collaborator's client
UsesCollaborator(l) ==
    \/ l.cmd \in {"update", "summary_daily", "summary_weekly"}
    \/ /\ l.cmd = "generate"
       /\ \E i \in 1..Len(l.tasks) : l.tasks[i].status = CHECK_PENDING

(***************************************************************************)
(* C3  Fail-soft update.                                                   *)
(***************************************************************************)
\* C3: when the intent parser's reply is not valid structured data, Update
\* ends without error and the tasks parsed from the document it writes are
\* the tasks parsed from the document it read (index, title, status).
C3_FailSoftUpdate ==
    (last.cmd = "update" /\ last.cred /\ NotStructured(last.reply))
        => /\ last.exit = "ok"
           /\ last.written # NO_FILE
           /\ Proj(parse_tasks_from_markdown(last.written))
                = Proj(parse_tasks_from_markdown(last.before))

(***************************************************************************)
(* C4  Cold start.                                                         *)
(***************************************************************************)
\* C4: when the prior day's document has no pending task (or is missing),
\* Generate makes no external call, needs no credential, and writes a
\* document that has the Task header and no checklist line under a Task or
\* Abandoned header; a blank or missing target file becomes the date title
\* and the empty Task section alone.
C4_ColdStart ==
    (/\ last.cmd = "generate"
     /\ \A i \in 1..Len(last.tasks) : last.tasks[i].status # CHECK_PENDING)
        => /\ EventsOf(last.log, {"llm", "RuntimeError"}) = {}
           /\ last.exit = "ok"
           /\ last.written # NO_FILE
           /\ store[last.date] = last.written
           /\ TaskHeaderCount(last.written) >= 1
           /\ Matched(splitlines(last.written)) = {}
           /\ is_blank(last.before)
                => last.written = <<DateTitle(last.date), EMPTY,
                                    TASK_SECTION_HEADER, EMPTY, EMPTY>>

C4_Witness ==
    /\ last.cmd = "generate"
    /\ last.date = 1
    /\ store[0] = NO_FILE
    /\ ~last.cred
    /\ Matched(splitlines(last.before)) # {}
    /\ last.written # NO_FILE

(***************************************************************************)
(* C8  Configuration error ordering.                                       *)
(***************************************************************************)
\* C8 as stated: the configuration error is raised before any read or write
\* of the day-file store in that invocation.
C8_ConfigErrorFirst_Original ==
    \A i \in 1..Len(last.log) :
        last.log[i].ev = "RuntimeError"
            => \A j \in 1..(i - 1) : last.log[j].ev \notin {"read", "write"}

\* C8 amended: a command that reaches the external collaborator without a
\* credential ends with the configuration error after its reads of the
\* day-file store and before any write and any external call: the error is
\* the last event, only reads precede it, and nothing is written.
C8_ConfigErrorFirst ==
    /\ (~last.cred /\ UsesCollaborator(last)) => last.exit = "RuntimeError"
    /\ last.exit = "RuntimeError" =>
         /\ ~last.cred
         /\ last.written = NO_FILE
         /\ last.log[Len(last.log)].ev = "RuntimeError"
         /\ \A j \in 1..(Len(last.log) - 1) : last.log[j].ev = "read"
         /\ Len(last.log) >= 2

C8_Witness ==
    /\ last.cmd = "update"
    /\ ~last.cred
    /\ last.exit = "RuntimeError"
    /\ last.tasks # <<>>

(***************************************************************************)
(* C9  Order of the edits of Update.                                       *)
(***************************************************************************)
\* C9: Update leaves every parsed task at its place and index; its status
\* is abandoned if its index is in abandoned_indices, else done if it is in
\* completed_indices, else unchanged; its title is the new title of the
\* (last) text edit naming its index, else unchanged; the new tasks follow,
\* pending, the k-th with index (maximum index + k).
C9_UpdateOrder ==
    (last.cmd = "update" /\ last.exit = "ok") =>
        LET old == parse_tasks_from_markdown(last.before)
            new == last.tasks
            e == last.edits
            n == Len(old)
            named(k) == { j \in 1..Len(e.text_edits) : e.text_edits[j].index = k }
        IN  /\ Len(new) = n + Len(e.new_tasks)
            /\ \A i \in 1..n :
                 /\ new[i].index = i
                 /\ new[i].status =
                      IF i \in e.abandoned_indices THEN CHECK_ABANDONED
                      ELSE IF i \in e.completed_indices THEN CHECK_DONE
                      ELSE old[i].status
                 /\ IF named(i) = {} THEN new[i].title = old[i].title
                    ELSE \E j \in named(i) :
                            /\ \A h \in named(i) : h <= j
                            /\ new[i].title = e.text_edits[j].new_title
            /\ \A k \in 1..Len(e.new_tasks) :
                 /\ new[n + k].index = n + k
                 /\ new[n + k].title = e.new_tasks[k]
                 /\ new[n + k].status = CHECK_PENDING

C9_Witness ==
    /\ last.cmd = "update"
    /\ last.exit = "ok"
    /\ 1 \in last.edits.completed_indices \cap last.edits.abandoned_indices
    /\ 2 \in last.edits.completed_indices \ last.edits.abandoned_indices
    /\ Len(last.edits.text_edits) = 2
    /\ Len(last.edits.new_tasks) = 2
    /\ Len(last.tasks) >= 4
    /\ last.tasks[2].title = "f"

(***************************************************************************)
(* C10  Read-only operations.                                              *)
(***************************************************************************)
\* C10: List, Summary weekly and Summary with an unrecognised kind write
\* nothing: every day's stored document is what it was before; the
\* unrecognised kind ends with exit status 1.
C10_ReadOnly ==
    [][ last'.cmd \in {"list", "summary_weekly", "summary_bad"}
          => /\ store' = store
             /\ EventsOf(last'.log, {"write"}) = {}
             /\ last'.written = NO_FILE
             /\ last'.cmd = "summary_bad" => last'.exit = "Exit1" ]_vars

C10_Witness ==
    /\ last.cmd = "summary_weekly"
    /\ last.cred
    /\ last.exit = "ok"
    /\ \E d \in Days : store[d] # NO_FILE
    /\ Len(last.log) = WeekSpan + 2

(***************************************************************************)
(* C1  Round trip.                                                         *)
(***************************************************************************)
\* C1 as stated: for every document with a Task or Abandoned section,
\* parse(serialize(parse(D))) equals parse(D) in index, title and status.
C1_RoundTrip_Original ==
    (op = "roundtrip" /\ result.tasks # <<>>)
        => Proj(result.tasks2) = Proj(result.tasks)

\* C1 amended: parse(serialize(parse(D))) is parse(D) with the abandoned
\* tasks moved behind the others and the indices renumbered; it equals
\* parse(D) in index, title and status whenever no abandoned task of
\* parse(D) stands before a task that is not abandoned.
C1_RoundTrip ==
    op = "roundtrip" =>
        /\ Proj(result.tasks2) = Partitioned(result.tasks)
        /\ AbandonedLast(result.tasks) => Proj(result.tasks2) = Proj(result.tasks)

C1_Witness ==
    /\ op = "roundtrip"
    /\ Len(result.tasks) >= 2
    /\ AbandonedLast(result.tasks)
    /\ \E i \in 1..Len(result.tasks) : is_done(result.tasks[i])
    /\ \E i \in 1..Len(result.tasks) : is_abandoned(result.tasks[i])
    /\ result.text # content

(***************************************************************************)
(* C2  Section isolation.                                                  *)
(***************************************************************************)
\* C2: every opaque section of the document (heading line and body lines)
\* occurs, contiguous and unchanged, in the document replace_tasks_section
\* and replace_summary_section return.
C2_SectionIsolation ==
    op \in {"replace_tasks", "replace_summary"} =>
        LET lines == splitlines(content) IN
        \A i \in 1..Len(lines) :
            IsOpaqueHeading(lines[i])
                => OccursIn(OpaqueSection(lines, i), splitlines(result.text))

C2_Witness ==
    LET lines == splitlines(content) IN
    /\ op = "replace_tasks"
    /\ \E i \in 2..Len(lines) :
         /\ IsOpaqueHeading(lines[i])
         /\ Len(OpaqueSection(lines, i)) >= 2
         /\ strip(lines[1]) = TASK_SECTION_HEADER
    /\ result.text # content

(***************************************************************************)
(* C5  Index density.                                                      *)
(***************************************************************************)
\* C5: the tasks parsed from any document carry the indices 1..N in order,
\* N the number of checklist lines under a Task or Abandoned header.
C5_IndexDensity ==
    op = "parse" =>
        /\ Len(result.tasks) = Cardinality(Matched(splitlines(content)))
        /\ \A i \in 1..Len(result.tasks) : result.tasks[i].index = i

C5_Witness ==
    LET lines == splitlines(content) IN
    /\ op = "parse"
    /\ Len(result.tasks) >= 1
    /\ \E i \in 1..Len(lines) :
         /\ strip(lines[i]).k \in {"blank", "text"}
         /\ UnderHeader(lines, i, TASK_SECTION_HEADER)
         /\ \E j \in Matched(lines) : i < j

(***************************************************************************)
(* C6  Abandoned coercion.                                                 *)
(***************************************************************************)
\* C6: the task parsed from a checklist line under the Abandoned header has
\* status abandoned, whatever its bracket character.
C6_AbandonedCoercion ==
    op = "parse" =>
        LET lines == splitlines(content) IN
        \A k \in 1..Len(result.tasks) :
            (k <= Cardinality(Matched(lines))
             /\ UnderHeader(lines, NthMatched(lines, k), ABANDONED_SECTION_HEADER))
                => result.tasks[k].status = CHECK_ABANDONED

C6_Witness ==
    LET lines == splitlines(content) IN
    /\ op = "parse"
    /\ \E k \in 1..Len(result.tasks) :
         /\ k <= Cardinality(Matched(lines))
         /\ UnderHeader(lines, NthMatched(lines, k), ABANDONED_SECTION_HEADER)
         /\ strip(lines[NthMatched(lines, k)]).m = " "

(***************************************************************************)
(* C7  Idempotent missing-header append.                                   *)
(***************************************************************************)
\* C7 as stated: for a document without a Task header line and any section
\* text that begins with the Task header, replacing twice leaves exactly
\* one Task header line.
C7_AppendOnce_Original ==
    (/\ op = "replace_tasks_twice"
     /\ TaskHeaderCount(content) = 0
     /\ strip(result.arg[1]) = TASK_SECTION_HEADER)
        => TaskHeaderCount(result.text) = 1

\* C7 amended: ... and any section text whose first line is its only Task
\* header line, replacing twice leaves exactly one Task header line.
C7_AppendOnce ==
    (/\ op = "replace_tasks_twice"
     /\ TaskHeaderCount(content) = 0
     /\ strip(result.arg[1]) = TASK_SECTION_HEADER
     /\ TaskHeaderCount(result.arg) = 1)
        => TaskHeaderCount(result.text) = 1

C7_Witness ==
    /\ op = "replace_tasks_twice"
    /\ TaskHeaderCount(content) = 0
    /\ TaskHeaderCount(result.arg) = 1
    /\ ~is_blank(content)
    /\ \E i \in 1..Len(content) : strip(content[i]) = ABANDONED_SECTION_HEADER
    /\ TaskHeaderCount(result.text) = 1

(***************************************************************************)
(* C11  Status decoding in the Task section.                               *)
(***************************************************************************)
\* the status a bracket character stands for
StatusOfMark(m) ==
    CASE m = " " -> CHECK_PENDING
      [] m \in {"x", "X"} -> CHECK_DONE
      [] m = "~" -> CHECK_ABANDONED

\* C11: the k-th task returned comes from the k-th checklist line in scan
\* order; when that line is in the Task section its status is pending for
\* a space, done for x or X, abandoned for ~, and its title is the trimmed
\* text after the bracket.
C11_StatusDecoding ==
    op = "parse" =>
        LET lines == splitlines(content) IN
        \A k \in 1..Len(result.tasks) :
            k <= Cardinality(Matched(lines)) =>
                LET line == lines[NthMatched(lines, k)] IN
                /\ result.tasks[k].title = strip(line).t
                /\ result.tasks[k].raw_line = rstrip(line)
                /\ UnderHeader(lines, NthMatched(lines, k), TASK_SECTION_HEADER)
                       => result.tasks[k].status = StatusOfMark(strip(line).m)

C11_Witness ==
    LET lines == splitlines(content) IN
    /\ op = "parse"
    /\ Len(result.tasks) = 2
    /\ Cardinality(Matched(lines)) = 2
    /\ \A k \in 1..2 : UnderHeader(lines, NthMatched(lines, k), TASK_SECTION_HEADER)
    /\ lines[NthMatched(lines, 1)] = Padded(Check("X", "b"))
    /\ lines[NthMatched(lines, 2)] = Check(" ", "a")
    /\ result.tasks[1].status = CHECK_DONE
    /\ result.tasks[2].status = CHECK_PENDING

(***************************************************************************)
(* C12  The written task list equals the computed one.                     *)
(***************************************************************************)
\* C12: the tasks parsed from replace_tasks_section(D, serialize(T)) are
\* the tasks of T, the abandoned ones behind the others and renumbered,
\* each exactly once, and no task of D's old sections survives, whatever
\* headers D holds.
C12_WrittenEqualsComputed ==
    op = "write_tasks" =>
        /\ Proj(result.tasks2) = Partitioned(result.tasks)
        /\ Proj(result.tasks2) = Proj(parse_tasks_from_markdown(result.arg))

(***************************************************************************)
(* C13  Index agreement between the parser and the extracted section.      *)
(***************************************************************************)
\* the positions of the checklist lines of a text
CheckLines(lines) == { i \in 1..Len(lines) : strip(lines[i]).k = "check" }

\* the position of the k-th checklist line
NthCheckLine(lines, k) ==
    CHOOSE i \in CheckLines(lines) : Cardinality({ j \in CheckLines(lines) : j <= i }) = k

HasTaskOrAbandonedHeader(s) ==
    \E i \in 1..Len(splitlines(s)) :
        strip(splitlines(s)[i]) \in {TASK_SECTION_HEADER, ABANDONED_SECTION_HEADER}

\* C13: the tasks parsed from get_task_section_only(D) are those parsed
\* from D, in index, title and status; the k-th checklist line of the
\* extracted text is the line of the task with index k; and the extracted
\* text is the empty string when D has neither a Task nor an Abandoned
\* header.
C13_IndexAgreement ==
    op = "extract" =>
        LET sent == splitlines(result.text) IN
        /\ Proj(result.tasks2) = Proj(result.tasks)
        /\ Cardinality(CheckLines(sent)) = Len(result.tasks)
        /\ \A k \in 1..Len(result.tasks) :
               k <= Cardinality(CheckLines(sent)) =>
                   /\ result.tasks[k].index = k
                   /\ result.tasks[k].raw_line = rstrip(sent[NthCheckLine(sent, k)])
        /\ ~HasTaskOrAbandonedHeader(content) => result.text = EMPTY_STR

C13_Witness ==
    LET lines == splitlines(content) IN
    /\ op = "extract"
    /\ Len(result.tasks) >= 1
    /\ CheckLines(lines) \ Matched(lines) # {}
    /\ \E i \in 1..Len(lines) : IsOpaqueHeading(lines[i])
    /\ Len(splitlines(result.text)) < Len(lines)
    /\ Proj(result.tasks2) = Proj(result.tasks)

(***************************************************************************)
(* C14  Parser section scoping.                                            *)
(***************************************************************************)
\* the parser's loop state after the first n lines
StateAfter(lines, n) ==
    parse_loop(SubSeq(lines, 1, n), 1,
               [in_tasks |-> FALSE, in_abandoned |-> FALSE, index |-> 0, tasks |-> <<>>])

\* the checklist lines that are to stay out: before any heading, or with
\* another nearest heading than the Task and the Abandoned header
Unscoped(lines) ==
    { i \in CheckLines(lines) :
        \/ HeadingAbove(lines, i) = 0
        \/ strip(lines[HeadingAbove(lines, i)])
               \notin {TASK_SECTION_HEADER, ABANDONED_SECTION_HEADER} }

\* C14: the parser returns a checklist line iff its nearest heading above
\* is the Task or the Abandoned header: the returned lines are, in order,
\* the lines so placed, and none is added by the lines under another
\* heading or before any header; after each line the in-task and the
\* in-abandoned flag are not both true, and after a line that is another
\* heading both are false.
C14_SectionScoping ==
    op = "parse" =>
        LET lines == splitlines(content) IN
        /\ Len(result.tasks) = Cardinality(CheckLines(lines) \ Unscoped(lines))
        /\ \A k \in 1..Len(result.tasks) :
               k <= Cardinality(Matched(lines)) =>
                   /\ NthMatched(lines, k) \notin Unscoped(lines)
                   /\ result.tasks[k].raw_line = rstrip(lines[NthMatched(lines, k)])
        /\ \A n \in 0..Len(lines) :
               LET st == StateAfter(lines, n) IN
               /\ ~(st.in_tasks /\ st.in_abandoned)
               /\ (n >= 1 /\ IsHeading(lines[n])
                   /\ strip(lines[n]) \notin {TASK_SECTION_HEADER, ABANDONED_SECTION_HEADER})
                      => (~st.in_tasks /\ ~st.in_abandoned)
               /\ (n >= 1 /\ strip(lines[n]) = TASK_SECTION_HEADER) => st.in_tasks
               /\ (n >= 1 /\ strip(lines[n]) = ABANDONED_SECTION_HEADER) => st.in_abandoned

C14_Witness ==
    LET lines == splitlines(content) IN
    /\ op = "parse"
    /\ Len(result.tasks) = 1
    /\ \E j \in Unscoped(lines) :
         /\ UnderHeader(lines, j, NOTES_HEADER)
         /\ \E h \in 1..Len(lines) : h < j /\ strip(lines[h]) = TASK_SECTION_HEADER

(***************************************************************************)
(* C15  Serializer partition.                                              *)
(***************************************************************************)
\* the checklist lines among lines lo..hi, in order
ChecksBetween(lines, lo, hi) ==
    SelectSeq(SubSeq(lines, lo, hi), LAMBDA l : l.k = "check")

\* the tasks of ts with (keep = TRUE) or without the abandoned status,
\* rendered as checklist lines
Rendered(ts, keep) ==
    LET sel == SelectSeq(ts, LAMBDA t : (t.status = CHECK_ABANDONED) = keep)
    IN  [i \in 1..Len(sel) |-> Check(sel[i].status, sel[i].title)]

\* C15: the serialized text starts with the Task header; under it stand
\* exactly the non-abandoned tasks in their order; the Abandoned header is
\* there iff some task is abandoned, and under it stand exactly the
\* abandoned tasks in their order, each with the ~ marker.
C15_SerializerPartition ==
    op = "serialize" =>
        LET out == result.text
            hdrs == { i \in 1..Len(out) : out[i].k = "hdr" }
            ab == { i \in 1..Len(out) : out[i] = ABANDONED_SECTION_HEADER }
            cut == IF ab = {} THEN Len(out) + 1 ELSE CHOOSE i \in ab : TRUE
        IN  /\ out[1] = TASK_SECTION_HEADER
            /\ hdrs = {1} \cup ab
            /\ Cardinality(ab) =
                   IF \E i \in 1..Len(result.tasks) : result.tasks[i].status = CHECK_ABANDONED
                   THEN 1 ELSE 0
            /\ ChecksBetween(out, 1, cut - 1) = Rendered(result.tasks, FALSE)
            /\ ChecksBetween(out, cut, Len(out)) = Rendered(result.tasks, TRUE)
            /\ \A i \in cut..Len(out) : out[i].k = "check" => out[i].m = "~"

C15_Witness ==
    /\ op = "serialize"
    /\ Len(result.tasks) = 3
    /\ result.tasks[1].status = CHECK_ABANDONED
    /\ result.tasks[2].status = CHECK_DONE
    /\ result.tasks[3].status = CHECK_ABANDONED
    /\ result.text[3] = Check(CHECK_DONE, result.tasks[2].title)
    /\ Len(result.text) = 8

(***************************************************************************)
(* C16  Generate header guarantee.                                         *)
(***************************************************************************)
\* C16: when Generate has consulted the generator (yesterday has a pending
\* task), the document it writes holds the Task header as a header line,
\* and every checklist line of the generator's text is a task parsed from
\* the written document.
C16_GenerateHeader ==
    (last.cmd = "generate" /\ EventsOf(last.log, {"llm"}) # {}) =>
        LET answer == splitlines(last.answer)
            parsed == parse_tasks_from_markdown(last.written)
        IN  /\ TaskHeaderCount(last.written) >= 1
            /\ \A i \in CheckLines(answer) :
                   \E k \in 1..Len(parsed) : parsed[k].title = strip(answer[i]).t

(***************************************************************************)
(* C17  Generate overwrites today's tasks on cold start.                   *)
(***************************************************************************)
\* C17: when yesterday has no pending task and today's document holds
\* tasks, Generate makes no external call and rewrites today's document:
\* the written document differs from the old one, parses to the empty task
\* list and has no Abandoned header left.
C17_ColdStartOverwrites ==
    (/\ last.cmd = "generate"
     /\ \A i \in 1..Len(last.tasks) : last.tasks[i].status # CHECK_PENDING
     /\ parse_tasks_from_markdown(last.before) # <<>>)
        => /\ EventsOf(last.log, {"llm"}) = {}
           /\ EventsOf(last.log, {"write"}) # {}
           /\ store[last.date] = last.written
           /\ last.written # last.before
           /\ parse_tasks_from_markdown(last.written) = <<>>
           /\ \A i \in 1..Len(splitlines(last.written)) :
                  strip(splitlines(last.written)[i]) # ABANDONED_SECTION_HEADER

C17_Witness ==
    /\ last.cmd = "generate"
    /\ last.date = 1
    /\ Len(last.tasks) >= 1
    /\ \A i \in 1..Len(last.tasks) : last.tasks[i].status # CHECK_PENDING
    /\ \E i \in Matched(splitlines(last.before)) :
           UnderHeader(splitlines(last.before), i, ABANDONED_SECTION_HEADER)
    /\ \E i \in Matched(splitlines(last.before)) :
           UnderHeader(splitlines(last.before), i, TASK_SECTION_HEADER)
    /\ parse_tasks_from_markdown(store[1]) = <<>>

(***************************************************************************)
(* C18  Daily Summary leaves the task list alone.                          *)
(***************************************************************************)
NoHeadingLine(s) == \A i \in 1..Len(s) : ~IsHeading(s[i])

\* C18: for a summary text without a heading line, the document
\* replace_summary_section writes parses to the task list of the document
\* it was given, and writing the same summary into the written document
\* once more gives the written document again.
C18_SummaryKeepsTasks ==
    (op = "replace_summary" /\ NoHeadingLine(result.arg)) =>
        /\ Proj(parse_tasks_from_markdown(result.text))
               = Proj(parse_tasks_from_markdown(content))
        /\ replace_summary_section(result.text, result.arg) = result.text

====
